---- MODULE Spec2Model ----
(***************************************************************************)
(* study-buddy: the staged MCQ generation pipeline (synchronous first page *)
(* plus detached background thread), the flashcard cache and the progress  *)
(* aggregation, modelled from app/routes/study.py, app/routes/progress.py, *)
(* app/services/llm_service.py and app/services/extraction_service.py.     *)
(***************************************************************************)
EXTENDS Integers, Sequences, FiniteSets, TLC

\* ------------------------------------------------------------------------
\* Bounds of the model
\* ------------------------------------------------------------------------
\* most pages a stored PDF has
MaxPages == 3
\* most candidates one generation-service reply carries
MaxCand == 2

\* ------------------------------------------------------------------------
\* Fixed data: users, stored files, study_documents rows
\* ------------------------------------------------------------------------
Users == {"u1", "u2"}

Files == {"a.pdf", "b.pdf"}

\* request slots of POST /generate-mcq/ (each slot serves one request)
Reqs == {"r1", "r2"}

\* request slots of POST /generate-flashcards/{filename} (a slot is reused)
FcSlots == {"f1", "f2"}

\* study_documents rows after the uploads: both users uploaded a file named
\* a.pdf (same path on disk), u1 also uploaded b.pdf.
StudyDocument ==
    { [id |-> 1, filename |-> "a.pdf", user_id |-> "u1"],
      [id |-> 2, filename |-> "a.pdf", user_id |-> "u2"],
      [id |-> 3, filename |-> "b.pdf", user_id |-> "u1"] }

\* A text is a sequence of character codes: 0 is a whitespace character,
\* k > 0 a printable character (the raw text of page k carries code k).
RawPage(k) == { <<0>>, <<0, k>> }

VARIABLES
    filePages,   \* file on disk -> raw page texts, as the PDF reader yields them
    questions,   \* committed mcq_questions rows
    nextQid,     \* next primary key of mcq_questions
    pc,          \* request slot -> position of the handler
    handler,     \* request slot -> locals of generate_mcq_questions
    response,    \* request slot -> what the caller received
    bg,          \* request slot -> state of the thread process_remaining_pages
    genLog,      \* generation-service calls made so far, in order
    flashcards,  \* committed flashcards rows
    nextFid,     \* next primary key of flashcards
    fc,          \* flashcard request slot -> position and locals of the handler
    fcLog,       \* completed flashcard requests with their responses, in order
    progress,    \* user_progress rows
    nextPid,     \* next primary key (and server time) of user_progress
    presp,       \* response of the most recent call of a progress endpoint
    statsCall    \* locals of a get_document_progress call between its queries

flashVars == <<flashcards, nextFid, fc, fcLog>>

progVars == <<progress, nextPid, presp, statsCall>>

vars == <<filePages, questions, nextQid, pc, handler, response, bg, genLog,
          flashVars, progVars>>

\* ------------------------------------------------------------------------
\* Text helpers (str.strip)
\* ------------------------------------------------------------------------
RECURSIVE LStrip(_)
LStrip(s) == IF s # <<>> /\ Head(s) = 0 THEN LStrip(Tail(s)) ELSE s

RECURSIVE RStrip(_)
RStrip(s) ==
    IF s # <<>> /\ s[Len(s)] = 0 THEN RStrip(SubSeq(s, 1, Len(s) - 1)) ELSE s

Strip(s) == RStrip(LStrip(s))

\* `if not page_text.strip()`
IsBlank(s) == Strip(s) = <<>>

\* ------------------------------------------------------------------------
\* PageExtractor
\* ------------------------------------------------------------------------
\* mutant of extract_pdf_text_by_pages: pages without text are left out
extract_pdf_text_by_pages_DropBlank(raw) ==
    SelectSeq([i \in 1..Len(raw) |-> Strip(raw[i])], LAMBDA t : t # <<>>)

\* extract_pdf_text_by_pages: one entry per page, stripped, "" for a page
\* without text
extract_pdf_text_by_pages(raw) ==
    [i \in 1..Len(raw) |-> IF Strip(raw[i]) # <<>> THEN Strip(raw[i]) ELSE <<>>]

extract_text_from_file(f) == extract_pdf_text_by_pages(filePages[f])

\* ------------------------------------------------------------------------
\* GenerationClient
\* ------------------------------------------------------------------------
\* A candidate of the reply: wf = FALSE is a candidate that raises while it is
\* turned into an MCQQuestion (a choice without "id"/"text", a wrong type);
\* choices are the ids of its choices and correct_answer is what
\* question.get("correct_answer", "") returns ("" when the key is missing).
\* These candidates name one of their choices.
Candidates ==
    { [wf |-> w, choices |-> <<"A", "B">>, correct_answer |-> "A"] : w \in BOOLEAN }

RECURSIVE SeqsUpTo(_, _)
SeqsUpTo(S, n) ==
    IF n = 0 THEN { <<>> }
    ELSE LET shorter == SeqsUpTo(S, n - 1)
         IN shorter \cup { Append(s, x) : s \in { t \in shorter : Len(t) = n - 1 }, x \in S }

\* What one chat.completions.create call can come back with: an exception, a
\* body that is not JSON, or JSON with a list of candidates.
LLMOutcomes ==
    { [kind |-> "api_error", cands |-> <<>>], [kind |-> "bad_json", cands |-> <<>>] }
    \cup { [kind |-> "json", cands |-> c] : c \in SeqsUpTo(Candidates, MaxCand) }

\* the reply made the try block of the page raise
CallFailed(o) ==
    \/ o.kind # "json"
    \/ \E i \in 1..Len(o.cands) : ~o.cands[i].wf

\* a genLog entry: who called for which page, whether the try block raised
\* and how many questions the call added to all_questions
LogEntry(r, unit, page, o, yielded) ==
    [req |-> r, unit |-> unit, page |-> page, kind |-> o.kind,
     failed |-> CallFailed(o), yielded |-> yielded]

\* The loop `for question in questions` inside the try block: candidates are
\* appended to all_questions one by one; a candidate that raises leaves the
\* loop, and what was appended before it stays in all_questions.
RECURSIVE ParseCandidates(_, _, _, _)
ParseCandidates(cands, question_id, page_number, prompt) ==
    IF cands = <<>> THEN <<>>
    ELSE IF ~Head(cands).wf THEN <<>>
    ELSE <<[id |-> question_id, page_number |-> page_number, about |-> prompt,
            choices |-> Head(cands).choices,
            correct_answer |-> Head(cands).correct_answer]>>
         \o ParseCandidates(Tail(cands), question_id + 1, page_number, prompt)

\* mutant of PageQuestions: the questions are tagged with the following page
PageQuestions_NextPage(o, question_id, page_number, prompt) ==
    IF o.kind = "json"
    THEN ParseCandidates(o.cands, question_id, page_number + 1, prompt)
    ELSE <<>>

\* one iteration of the page loop for a non-blank page
PageQuestions(o, question_id, page_number, prompt) ==
    IF o.kind = "json"
    THEN ParseCandidates(o.cands, question_id, page_number, prompt)
    ELSE <<>>

\* generate_mcq_questions_from_pages(pages_text, ...): llm[i] is what the
\* call for pages_text[i] comes back with (blank pages make no call).
RECURSIVE GenFrom(_, _, _, _)
GenFrom(pages_text, llm, page_idx, question_id) ==
    IF page_idx >= Len(pages_text) THEN <<>>
    ELSE IF IsBlank(pages_text[page_idx + 1])
         THEN GenFrom(pages_text, llm, page_idx + 1, question_id)
         ELSE LET got == PageQuestions(llm[page_idx + 1], question_id,
                                       page_idx + 1, pages_text[page_idx + 1])
              IN got \o GenFrom(pages_text, llm, page_idx + 1, question_id + Len(got))

generate_mcq_questions_from_pages(pages_text, llm) == GenFrom(pages_text, llm, 0, 1)

\* ------------------------------------------------------------------------
\* Persistence helpers
\* ------------------------------------------------------------------------
\* mutant of NewRows: the rows carry the 0-based index of the page
NewRows_ZeroBased(page_questions, document_id, page_number, firstId, by) ==
    { [id |-> firstId + i - 1,
       document_id |-> document_id,
       page_number |-> page_number - 1,
       about |-> page_questions[i].about,
       choices |-> page_questions[i].choices,
       correct_answer |-> page_questions[i].correct_answer,
       by |-> by] : i \in 1..Len(page_questions) }

\* DBMCQQuestion(...) rows of one page, with the primary keys the flush of the
\* commit assigns; `by` records which unit wrote the row.
NewRows(page_questions, document_id, page_number, firstId, by) ==
    { [id |-> firstId + i - 1,
       document_id |-> document_id,
       page_number |-> page_number,
       about |-> page_questions[i].about,
       choices |-> page_questions[i].choices,
       correct_answer |-> page_questions[i].correct_answer,
       by |-> by] : i \in 1..Len(page_questions) }

\* mutant of Commit: the rows are not written when commit returns
Commit_NotYetWritten(committed, pending) == committed

\* Session.commit(): the pending rows become committed rows
Commit(committed, pending) == committed \cup pending

\* mutant of Rollback: the rollback also undoes what background threads
\* committed before
Rollback_UndoesCommitted(committed, pending) ==
    { q \in committed : q.by.unit # "bg" }

\* mutant of Rollback: the rows flushed before the failure stay
Rollback_KeepsFlushed(committed, pending) == committed \cup pending

\* Session.rollback(): the pending rows are dropped, committed rows stay
Rollback(committed, pending) == committed

NoResponse == [status |-> 0, page_count |-> 0, questions |-> <<>>]

NoHandler ==
    [user |-> "", filename |-> "", num_questions |-> 0, page_count |-> 0,
     first_page_questions |-> <<>>, p1_called |-> FALSE, p1_failed |-> FALSE]

NoBg ==
    [state |-> "none", filename |-> "", remaining_pages |-> <<>>,
     document_id |-> 0, page_idx |-> 0, pending |-> <<>>, closed |-> FALSE]

NoFc == [state |-> "idle", user |-> "", filename |-> "", document_id |-> 0,
         pages_text |-> <<>>]

NoPresp == [op |-> "none", status |-> 0, user |-> "", document_id |-> 0,
            question_id |-> 0, body |-> <<>>]

NoStatsCall == [at |-> "idle", user |-> "", document_id |-> 0, total_questions |-> 0,
                questions_attempted |-> 0, correct_count |-> 0]

\* ------------------------------------------------------------------------
\* Initial state
\* ------------------------------------------------------------------------
PagesOfLen(n) == { s \in [1..n -> {<<0>>} \cup UNION { RawPage(k) : k \in 1..n }] :
                     \A k \in 1..n : s[k] \in RawPage(k) }

Init ==
    /\ \E n \in 0..MaxPages : \E s \in PagesOfLen(n) :
          filePages = [f \in Files |-> IF f = "a.pdf" THEN s ELSE << <<0, 1>> >>]
    /\ questions = {}
    /\ nextQid = 1
    /\ pc = [r \in Reqs |-> "idle"]
    /\ handler = [r \in Reqs |-> NoHandler]
    /\ response = [r \in Reqs |-> NoResponse]
    /\ bg = [r \in Reqs |-> NoBg]
    /\ genLog = <<>>
    /\ flashcards = {}
    /\ nextFid = 1
    /\ fc = [s \in FcSlots |-> NoFc]
    /\ fcLog = <<>>
    /\ progress = {}
    /\ nextPid = 1
    /\ presp = NoPresp
    /\ statsCall = NoStatsCall

\* ------------------------------------------------------------------------
\* POST /generate-mcq/ : synchronous stage
\* ------------------------------------------------------------------------
\* mutant of SpawnBg: the first page is handed to the thread as well
SpawnBg_AllPages(filename, pages_text) ==
    IF Len(pages_text) > 1
    THEN [NoBg EXCEPT !.state = "spawned", !.filename = filename,
                      !.remaining_pages = pages_text]
    ELSE NoBg

\* mutant of SpawnBg: no thread when the first page has no text
SpawnBg_NonBlankFirst(filename, pages_text) ==
    IF Len(pages_text) > 1 /\ ~IsBlank(pages_text[1])
    THEN [NoBg EXCEPT !.state = "spawned", !.filename = filename,
                      !.remaining_pages = Tail(pages_text)]
    ELSE NoBg

\* the thread process_remaining_pages as created by threading.Thread(...).start()
SpawnBg(filename, pages_text) ==
    IF Len(pages_text) > 1
    THEN [NoBg EXCEPT !.state = "spawned", !.filename = filename,
                      !.remaining_pages = Tail(pages_text)]
    ELSE NoBg

\* The handler up to and including thread.start(). num_questions: the field
\* of the MCQRequest body, any int; extractOk: the extractor did not raise;
\* llm: the reply to the page-1 call; commitOk: db.commit() did not raise.
generate_mcq_questions(r, user, filename, num_questions, extractOk, llm, commitOk) ==
    /\ pc[r] = "idle"
    /\ LET pages_text == extract_text_from_file(filename)
           found == { d \in StudyDocument : d.filename = filename /\ d.user_id = user }
           first == pages_text # <<>> /\ ~IsBlank(pages_text[1])
           page_questions ==
               IF first
               THEN generate_mcq_questions_from_pages(<<pages_text[1]>>, <<llm>>)
               ELSE <<>>
           raised == ~extractOk \/ found = {} \/ (first /\ ~commitOk)
           called == extractOk /\ found # {} /\ first
       IN /\ genLog' = IF called
                       THEN Append(genLog, LogEntry(r, "fg", 1, llm, Len(page_questions)))
                       ELSE genLog
          /\ IF raised
             THEN \* except Exception: db.rollback(); raise LLMProcessingException
                  /\ pc' = [pc EXCEPT ![r] = "failed"]
                  /\ handler' = [handler EXCEPT ![r] =
                        [NoHandler EXCEPT !.user = user, !.filename = filename,
                                          !.num_questions = num_questions,
                                          !.p1_called = called,
                                          !.p1_failed = called /\ CallFailed(llm)]]
                  /\ response' = [response EXCEPT ![r] =
                        [status |-> 500, page_count |-> 0, questions |-> <<>>]]
                  /\ questions' = Rollback(questions, {})
                  /\ UNCHANGED <<nextQid, bg>>
             ELSE \E db_document \in found :
                  /\ questions' = Commit(questions,
                        NewRows(page_questions, db_document.id, 1, nextQid,
                                [req |-> r, unit |-> "fg"]))
                  /\ nextQid' = nextQid + Len(page_questions)
                  /\ handler' = [handler EXCEPT ![r] =
                        [user |-> user, filename |-> filename,
                         num_questions |-> num_questions,
                         page_count |-> Len(pages_text),
                         first_page_questions |-> page_questions,
                         p1_called |-> called,
                         p1_failed |-> called /\ CallFailed(llm)]]
                  /\ bg' = [bg EXCEPT ![r] = SpawnBg(filename, pages_text)]
                  /\ pc' = [pc EXCEPT ![r] = "started"]
                  /\ UNCHANGED response
    /\ UNCHANGED <<filePages, flashVars, progVars>>

\* mutant of generate_mcq_questions_return: thread.join() before the return
generate_mcq_questions_return_Joined(r) ==
    /\ pc[r] = "started"
    /\ bg[r].state \in {"none", "done", "error", "notfound"}
    /\ pc' = [pc EXCEPT ![r] = "responded"]
    /\ response' = [response EXCEPT ![r] =
          [status |-> 200, page_count |-> handler[r].page_count,
           questions |-> handler[r].first_page_questions]]
    /\ UNCHANGED <<filePages, questions, nextQid, handler, bg, genLog, flashVars, progVars>>

\* `return MCQGenerationResponse(...)`
generate_mcq_questions_return(r) ==
    /\ pc[r] = "started"
    /\ pc' = [pc EXCEPT ![r] = "responded"]
    /\ response' = [response EXCEPT ![r] =
          [status |-> 200, page_count |-> handler[r].page_count,
           questions |-> handler[r].first_page_questions]]
    /\ UNCHANGED <<filePages, questions, nextQid, handler, bg, genLog, flashVars, progVars>>

\* ------------------------------------------------------------------------
\* The background thread process_remaining_pages
\* ------------------------------------------------------------------------
\* SessionLocal() and the re-query of the document, by filename alone;
\* .first() without ORDER BY may return any matching row.
process_remaining_pages_start(r) ==
    /\ bg[r].state = "spawned"
    /\ LET found == { d \in StudyDocument : d.filename = bg[r].filename }
       IN IF found = {}
          THEN bg' = [bg EXCEPT ![r].state = "notfound", ![r].closed = TRUE]
          ELSE \E background_document \in found :
                  bg' = [bg EXCEPT ![r].state = "running",
                                   ![r].document_id = background_document.id,
                                   ![r].page_idx = 2]
    /\ UNCHANGED <<filePages, questions, nextQid, pc, handler, response, genLog, flashVars, progVars>>

\* One iteration of `for page_idx, page_text in enumerate(remaining_pages,
\* start=2)` up to the call of commit: a blank page is skipped, otherwise the
\* page's questions are generated and added to the session.
process_remaining_pages_page(r, llm) ==
    /\ bg[r].state = "running"
    /\ bg[r].page_idx <= Len(bg[r].remaining_pages) + 1
    /\ LET page_text == bg[r].remaining_pages[bg[r].page_idx - 1]
       IN IF IsBlank(page_text)
          THEN /\ bg' = [bg EXCEPT ![r].page_idx = @ + 1]
               /\ UNCHANGED genLog
          ELSE LET page_questions ==
                       generate_mcq_questions_from_pages(<<page_text>>, <<llm>>)
               IN /\ bg' = [bg EXCEPT ![r].state = "committing",
                                      ![r].pending = page_questions]
                  /\ genLog' = Append(genLog,
                        LogEntry(r, "bg", bg[r].page_idx, llm, Len(page_questions)))
    /\ UNCHANGED <<filePages, questions, nextQid, pc, handler, response, flashVars, progVars>>

\* background_db.commit() of one page; when it raises, the except branch
\* rolls back, the finally branch closes the session and the thread ends.
process_remaining_pages_commit(r, commitOk) ==
    /\ bg[r].state = "committing"
    /\ IF commitOk
       THEN /\ questions' = Commit(questions,
                   NewRows(bg[r].pending, bg[r].document_id, bg[r].page_idx, nextQid,
                           [req |-> r, unit |-> "bg"]))
            /\ nextQid' = nextQid + Len(bg[r].pending)
            /\ bg' = [bg EXCEPT ![r].state = "running", ![r].pending = <<>>,
                                ![r].page_idx = @ + 1]
       ELSE /\ questions' = Rollback(questions, bg[r].pending)
            /\ nextQid' = nextQid
            /\ bg' = [bg EXCEPT ![r].state = "error", ![r].pending = <<>>,
                                ![r].closed = TRUE]
    /\ UNCHANGED <<filePages, pc, handler, response, genLog, flashVars, progVars>>

\* mutant of process_remaining_pages_end: the session is left open
process_remaining_pages_end_NoClose(r) ==
    /\ bg[r].state = "running"
    /\ bg[r].page_idx > Len(bg[r].remaining_pages) + 1
    /\ bg' = [bg EXCEPT ![r].state = "done"]
    /\ UNCHANGED <<filePages, questions, nextQid, pc, handler, response, genLog, flashVars, progVars>>

\* the loop is exhausted: the finally branch closes the session
process_remaining_pages_end(r) ==
    /\ bg[r].state = "running"
    /\ bg[r].page_idx > Len(bg[r].remaining_pages) + 1
    /\ bg' = [bg EXCEPT ![r].state = "done", ![r].closed = TRUE]
    /\ UNCHANGED <<filePages, questions, nextQid, pc, handler, response, genLog, flashVars, progVars>>

BgStep(r) ==
    \/ process_remaining_pages_start(r)
    \/ \E llm \in LLMOutcomes : process_remaining_pages_page(r, llm)
    \/ \E commitOk \in BOOLEAN : process_remaining_pages_commit(r, commitOk)
    \/ process_remaining_pages_end(r)

\* ------------------------------------------------------------------------
\* Specification of the staged generation pipeline
\* ------------------------------------------------------------------------
\* the slot of the single request of Spec
Solo == {"r1"}

\* `num_questions: int = 3`, the value of a request that does not give one
DefaultNumQuestions == 3

Next ==
    \/ \E r \in Solo, user \in Users, filename \in Files, extractOk \in BOOLEAN,
          llm \in LLMOutcomes, commitOk \in BOOLEAN :
          generate_mcq_questions(r, user, filename, DefaultNumQuestions,
                                 extractOk, llm, commitOk)
    \/ \E r \in Solo : generate_mcq_questions_return(r)
    \/ \E r \in Solo : process_remaining_pages_start(r)
    \/ \E r \in Solo, llm \in LLMOutcomes : process_remaining_pages_page(r, llm)
    \/ \E r \in Solo, commitOk \in BOOLEAN : process_remaining_pages_commit(r, commitOk)
    \/ \E r \in Solo : process_remaining_pages_end(r)

Spec == Init /\ [][Next]_vars

\* The thread is scheduled by the operating system and every generation call
\* returns; the handler's return statement is reached once thread.start() is.
FairSpec ==
    /\ Spec
    /\ \A r \in Solo : WF_vars(BgStep(r))
    /\ \A r \in Solo : WF_vars(generate_mcq_questions_return(r))

\* ------------------------------------------------------------------------
\* Vocabulary of the claims
\* ------------------------------------------------------------------------
\* committed rows a unit of a request wrote for a page
RowsOf(r, unit, p) ==
    { q \in questions : q.by = [req |-> r, unit |-> unit] /\ q.page_number = p }

\* positions in genLog of the calls a unit of a request made for a page
CallsFor(r, unit, p) ==
    { i \in 1..Len(genLog) :
        genLog[i].req = r /\ genLog[i].unit = unit /\ genLog[i].page = p }

\* the extractor's output for the file of a request that got past validation
PagesOf(r) == extract_text_from_file(handler[r].filename)

BgTerminal == {"done", "error", "notfound"}

\* number of questions the logged reply for page p of the thread of r yields
ExpectedRows(r, p) ==
    IF CallsFor(r, "bg", p) = {} THEN 0
    ELSE LET i == CHOOSE i \in CallsFor(r, "bg", p) : TRUE
         IN genLog[i].yielded

\* ------------------------------------------------------------------------
\* C1: the synchronous response of a generation request carries only items
\* generated from page 1, all tagged page number 1, none when page 1 is
\* blank, and never an item of pages 2..N.
\* ------------------------------------------------------------------------
C1_SyncResponseOnlyPage1 ==
    \A r \in Reqs :
        response[r].status = 200 =>
            LET pages == PagesOf(r)
                items == response[r].questions
            IN /\ response[r].page_count = Len(pages)
               /\ \A i \in 1..Len(items) :
                     /\ items[i].page_number = 1
                     /\ pages # <<>> /\ items[i].about = pages[1]
                     /\ \A k \in 2..Len(pages) : items[i].about # pages[k]
               /\ (pages = <<>> \/ IsBlank(pages[1])) => items = <<>>

\* a multi-page request answered with page-1 items while the store already
\* holds questions of page 2
C1_Witness ==
    \E r \in Reqs :
        /\ response[r].status = 200
        /\ response[r].page_count > 1
        /\ response[r].questions # <<>>
        /\ RowsOf(r, "bg", 2) # {}

\* ------------------------------------------------------------------------
\* C2 as stated: once the background unit of a multi-page request has ended,
\* every page 2..N has Questions in the store (and the unit wrote none tagged
\* page 1).
\* ------------------------------------------------------------------------
C2_AllPagesAppear ==
    \A r \in Reqs :
        (pc[r] = "responded" /\ bg[r].state \in BgTerminal) =>
            /\ \A p \in 2..Len(PagesOf(r)) : RowsOf(r, "bg", p) # {}
            /\ RowsOf(r, "bg", 1) = {}

\* what a thread that has stopped has left in the store: for every page it
\* got past, exactly the questions the page's reply yielded (none for a blank
\* page)
BgSettled(r) ==
    /\ bg[r].state \in BgTerminal
    /\ \A p \in 2..(bg[r].page_idx - 1) :
          /\ Cardinality(RowsOf(r, "bg", p)) = ExpectedRows(r, p)
          /\ IsBlank(PagesOf(r)[p]) <=> CallsFor(r, "bg", p) = {}
    /\ bg[r].state = "done" => bg[r].page_idx = Len(PagesOf(r)) + 1

\* C2 amended: under fair scheduling the background unit of an answered
\* multi-page request ends; by then every non-blank page it got past has
\* exactly the Questions its generation reply yielded (possibly none), blank
\* pages have none, and a unit that ends normally got past all pages 2..N;
\* no Question written by a background unit is tagged page 1 or made from
\* another page's text than the one it is tagged with.
C2_BackgroundCompletes ==
    /\ \A r \in Solo :
          (pc[r] = "responded" /\ bg[r].state # "none") ~> BgSettled(r)
    /\ [](\A q \in questions :
            q.by.unit = "bg" =>
                /\ q.page_number >= 2
                /\ q.page_number <= Len(PagesOf(q.by.req))
                /\ q.about = PagesOf(q.by.req)[q.page_number])

\* the thread of a three-page request ended normally with questions for
\* pages 2 and 3
C2_Witness ==
    \E r \in Reqs :
        /\ pc[r] = "responded"
        /\ bg[r].state = "done"
        /\ Len(PagesOf(r)) = 3
        /\ RowsOf(r, "bg", 2) # {}
        /\ RowsOf(r, "bg", 3) # {}
        /\ RowsOf(r, "fg", 1) # {}

\* ------------------------------------------------------------------------
\* C5 as stated: a failed generation call of the background unit on page k
\* persists nothing for page k, is never retried and does not keep the later
\* pages from being handled.
\* ------------------------------------------------------------------------
C5_FailedPagePersistsNothing ==
    \A i \in 1..Len(genLog) :
        LET e == genLog[i] IN
        (e.unit = "bg" /\ e.failed) =>
            /\ RowsOf(e.req, "bg", e.page) = {}
            /\ CallsFor(e.req, "bg", e.page) = {i}
            /\ bg[e.req].state = "done" =>
                  \A p \in (e.page + 1)..Len(PagesOf(e.req)) :
                      ~IsBlank(PagesOf(e.req)[p]) => CallsFor(e.req, "bg", p) # {}

\* ------------------------------------------------------------------------
\* C6: when the background unit fails while handling page k, what it
\* committed for pages 2..k-1 stays persisted, page k's uncommitted Questions
\* are discarded, the page-1 Questions stay and the foreground response is
\* the one of the synchronous stage.
\* ------------------------------------------------------------------------
C6_PerPageCommitSurvivesFailure ==
    \A r \in Reqs :
        bg[r].state = "error" =>
            /\ \A p \in 2..(bg[r].page_idx - 1) :
                  Cardinality(RowsOf(r, "bg", p)) = ExpectedRows(r, p)
            /\ RowsOf(r, "bg", bg[r].page_idx) = {}
            /\ bg[r].pending = <<>>
            /\ Cardinality(RowsOf(r, "fg", 1)) = Len(handler[r].first_page_questions)
            /\ pc[r] \in {"started", "responded"}
            /\ pc[r] = "responded" =>
                  response[r] = [status |-> 200,
                                 page_count |-> handler[r].page_count,
                                 questions |-> handler[r].first_page_questions]

\* the commit of page 3 failed after page 2 was committed with questions and
\* page 3's reply had yielded questions; page 1 has questions too
C6_Witness ==
    \E r \in Reqs :
        /\ bg[r].state = "error"
        /\ bg[r].page_idx = 3
        /\ RowsOf(r, "bg", 2) # {}
        /\ ExpectedRows(r, 3) > 0
        /\ RowsOf(r, "fg", 1) # {}
        /\ pc[r] = "responded"

\* ------------------------------------------------------------------------
\* C7 as stated: a synchronous stage in which extraction, the page-1
\* generation call or persistence failed ends in a caller-visible failure and
\* leaves none of its Questions persisted; a failed page-1 call is never
\* answered with a successful response.
\* ------------------------------------------------------------------------
C7_SyncFailureIsVisible ==
    \A r \in Reqs :
        /\ handler[r].p1_failed => (pc[r] = "failed" /\ response[r].status = 500)
        /\ pc[r] = "failed" =>
              (response[r].status = 500 /\ \A p \in 1..MaxPages : RowsOf(r, "fg", p) = {})

\* ========================================================================
\* FlashcardCache: POST /generate-flashcards/{filename}
\* ========================================================================
\* most flashcard requests one behaviour makes
MaxCalls == 3

\* replies to a flashcard call: card.get(...) never raises, so every card of
\* a JSON reply is taken; a JSON reply is empty or full
FlashcardOutcomes ==
    { o \in LLMOutcomes :
        /\ \A i \in 1..Len(o.cands) : o.cands[i].wf
        /\ Len(o.cands) \in {0, MaxCand} }

\* the cards one reply yields for a page
PageCards(o, prompt) ==
    IF o.kind = "json"
    THEN [i \in 1..Len(o.cands) |-> [front |-> prompt, n |-> i]]
    ELSE <<>>

\* generate_flashcards_from_pages(pages_text, ...): one call per non-blank
\* page, llm[i] is the reply to the call for pages_text[i]
RECURSIVE CardsFrom(_, _, _)
CardsFrom(pages_text, llm, page_idx) ==
    IF page_idx >= Len(pages_text) THEN <<>>
    ELSE IF IsBlank(pages_text[page_idx + 1])
         THEN CardsFrom(pages_text, llm, page_idx + 1)
         ELSE PageCards(llm[page_idx + 1], pages_text[page_idx + 1])
              \o CardsFrom(pages_text, llm, page_idx + 1)

generate_flashcards_from_pages(pages_text, llm) == CardsFrom(pages_text, llm, 0)

\* the calls generate_flashcards_from_pages makes (one per non-blank page)
RECURSIVE CardCalls(_, _, _, _)
CardCalls(s, pages_text, llm, page_idx) ==
    IF page_idx >= Len(pages_text) THEN <<>>
    ELSE IF IsBlank(pages_text[page_idx + 1])
         THEN CardCalls(s, pages_text, llm, page_idx + 1)
         ELSE <<[req |-> s, unit |-> "fc", page |-> page_idx + 1,
                 kind |-> llm[page_idx + 1].kind]>>
              \o CardCalls(s, pages_text, llm, page_idx + 1)

\* mutant of ExistingFlashcards: the existence check finds nothing
ExistingFlashcards_None(document_id) == {}

\* `db.query(Flashcard).filter(Flashcard.document_id == db_document.id).all()`
ExistingFlashcards(document_id) ==
    { c \in flashcards : c.document_id = document_id }

\* Flashcard(...) rows with the primary keys db.flush() assigns
NewCards(generated_flashcards, document_id, firstId) ==
    { [id |-> firstId + i - 1,
       document_id |-> document_id,
       front |-> generated_flashcards[i].front,
       n |-> generated_flashcards[i].n] : i \in 1..Len(generated_flashcards) }

\* a completed request: its status, where the answer came from ("cached",
\* "generated") or, for an error, what the detail of the error names
\* ("not_found": document not found; "extract_error": the extractor raised;
\* "no_text": "No text could be extracted from the document"; "empty":
\* "Could not generate flashcards from the document"; "persist_error": a
\* flush or the commit raised)
FcEntry(s, user, filename, status, source, cards, calls) ==
    [slot |-> s, user |-> user, filename |-> filename, status |-> status,
     source |-> source, cards |-> cards, calls |-> calls]

\* The handler up to `await generate_flashcards_from_pages(...)`: document
\* lookup, the existence check with the cached return, the extraction.
generate_flashcards(s, user, filename, extractOk) ==
    /\ fc[s].state = "idle"
    /\ Len(fcLog) + Cardinality({ t \in FcSlots : fc[t].state = "generating" }) < MaxCalls
    /\ LET found == { d \in StudyDocument : d.filename = filename /\ d.user_id = user }
       IN IF found = {}
          THEN \* FileValidationException
               /\ fcLog' = Append(fcLog,
                     FcEntry(s, user, filename, 400, "not_found", {}, 0))
               /\ UNCHANGED fc
          ELSE \E db_document \in found :
               LET existing_flashcards == ExistingFlashcards(db_document.id)
                   pages_text == extract_text_from_file(filename)
               IN IF existing_flashcards # {}
                  THEN /\ fcLog' = Append(fcLog,
                             FcEntry(s, user, filename, 200, "cached",
                                     existing_flashcards, 0))
                       /\ UNCHANGED fc
                  ELSE IF ~extractOk \/ pages_text = <<>>
                  THEN \* except Exception: db.rollback(); LLMProcessingException
                       \* whose detail ends in the message of what was raised
                       /\ fcLog' = Append(fcLog,
                             FcEntry(s, user, filename, 500,
                                     IF ~extractOk THEN "extract_error" ELSE "no_text",
                                     {}, 0))
                       /\ UNCHANGED fc
                  ELSE /\ fc' = [fc EXCEPT ![s] =
                             [state |-> "generating", user |-> user,
                              filename |-> filename,
                              document_id |-> db_document.id,
                              pages_text |-> pages_text]]
                       /\ UNCHANGED fcLog
    /\ UNCHANGED <<filePages, questions, nextQid, pc, handler, response, bg, genLog,
                   flashcards, nextFid, progVars>>

\* The handler from the return of generate_flashcards_from_pages on: llm are
\* the replies per page, persistOk: neither a flush nor the commit raised.
generate_flashcards_store(s, llm, persistOk) ==
    /\ fc[s].state = "generating"
    /\ LET generated_flashcards == generate_flashcards_from_pages(fc[s].pages_text, llm)
           made == CardCalls(s, fc[s].pages_text, llm, 0)
           rows == NewCards(generated_flashcards, fc[s].document_id, nextFid)
       IN IF generated_flashcards = <<>> \/ ~persistOk
          THEN \* except Exception: db.rollback(); LLMProcessingException
               /\ fcLog' = Append(fcLog,
                     FcEntry(s, fc[s].user, fc[s].filename, 500,
                             IF generated_flashcards = <<>>
                             THEN "empty" ELSE "persist_error",
                             {}, Len(made)))
               /\ flashcards' = Rollback(flashcards, rows)
               /\ UNCHANGED nextFid
          ELSE /\ flashcards' = flashcards \cup rows
               /\ nextFid' = nextFid + Len(generated_flashcards)
               /\ fcLog' = Append(fcLog,
                     FcEntry(s, fc[s].user, fc[s].filename, 200, "generated", rows,
                             Len(made)))
    /\ fc' = [fc EXCEPT ![s] = NoFc]
    /\ UNCHANGED <<filePages, questions, nextQid, pc, handler, response, bg, genLog,
                   progVars>>

\* the pages generate_flashcards_from_pages makes a call for
NonBlankPages(pages_text) ==
    { i \in 1..Len(pages_text) : ~IsBlank(pages_text[i]) }

\* flashcard requests made one after the other: a request starts only when
\* no other one is in flight
FlashSeqRequests == { <<"u1", "a.pdf">>, <<"u1", "b.pdf">> }

NextFlashSeq ==
    \/ \E rq \in FlashSeqRequests, extractOk \in BOOLEAN :
          generate_flashcards("f1", rq[1], rq[2], extractOk)
    \/ \E llm \in [NonBlankPages(fc["f1"].pages_text) -> FlashcardOutcomes],
          persistOk \in BOOLEAN :
          generate_flashcards_store("f1", llm, persistOk)

SpecFlashSeq == Init /\ [][NextFlashSeq]_vars

\* the document a user's request for a filename resolves to
DocOf(user, filename) ==
    { d.id : d \in { e \in StudyDocument : e.filename = filename /\ e.user_id = user } }

\* ------------------------------------------------------------------------
\* C4: of two flashcard requests made in sequence for the same document, the
\* later one returns exactly the set the earlier one returned or persisted
\* (same rows, same ids, same count), is served from the cache, makes no
\* generation call and leaves the document's Flashcard rows as they were;
\* this holds for every later request.
\* ------------------------------------------------------------------------
C4_SecondCallReturnsSameSet ==
    \A i \in 1..Len(fcLog) : \A j \in (i + 1)..Len(fcLog) :
        ( /\ fcLog[i].status = 200
          /\ fcLog[j].user = fcLog[i].user
          /\ fcLog[j].filename = fcLog[i].filename ) =>
            /\ fcLog[j].status = 200
            /\ fcLog[j].source = "cached"
            /\ fcLog[j].cards = fcLog[i].cards
            /\ fcLog[j].calls = 0
            /\ \A d \in DocOf(fcLog[i].user, fcLog[i].filename) :
                  ExistingFlashcards(d) = fcLog[i].cards

\* a generated set of two or more cards was returned again, unchanged, by
\* two later requests for the same document
C4_Witness ==
    /\ Len(fcLog) = 3
    /\ fcLog[1].source = "generated"
    /\ Cardinality(fcLog[1].cards) >= 2
    /\ fcLog[2].source = "cached" /\ fcLog[2].user = fcLog[1].user
    /\ fcLog[2].filename = fcLog[1].filename
    /\ fcLog[3].source = "cached" /\ fcLog[3].user = fcLog[1].user
    /\ fcLog[3].filename = fcLog[1].filename
    /\ fcLog[3].cards = fcLog[1].cards

\* ========================================================================
\* ProgressAggregator: the endpoints of app/routes/progress.py
\* ========================================================================
\* most attempts recorded in one behaviour of SpecProgress
MaxAttempts == 3

DocIds == { d.id : d \in StudyDocument }

ChoiceIds == {"A"}

\* a question as the generator returns it, used to build stored rows
SomeQuestion == [id |-> 1, page_number |-> 1, about |-> <<1>>,
                 choices |-> <<"A", "B">>, correct_answer |-> "A"]

\* mcq_questions rows left by earlier generation requests: two questions of
\* document 1, one of document 3 (both of u1), one of document 2 (of u2)
ProgressQuestions ==
    NewRows(<<SomeQuestion, SomeQuestion>>, 1, 1, 1, [req |-> "r1", unit |-> "fg"])
    \cup NewRows(<<SomeQuestion>>, 3, 1, 3, [req |-> "r1", unit |-> "fg"])
    \cup NewRows(<<SomeQuestion>>, 2, 1, 4, [req |-> "r2", unit |-> "fg"])

\* rows for the rollup scenario: four questions of document 1, six of
\* document 3
RollupQuestions ==
    NewRows(<<SomeQuestion, SomeQuestion, SomeQuestion, SomeQuestion>>, 1, 1, 1,
            [req |-> "r1", unit |-> "fg"])
    \cup NewRows(<<SomeQuestion, SomeQuestion, SomeQuestion, SomeQuestion,
                   SomeQuestion, SomeQuestion>>, 3, 1, 5,
                 [req |-> "r1", unit |-> "fg"])

InitProgress ==
    /\ filePages = [f \in Files |-> << <<0, 1>> >>]
    /\ questions = ProgressQuestions
    /\ nextQid = 5
    /\ pc = [r \in Reqs |-> "idle"]
    /\ handler = [r \in Reqs |-> NoHandler]
    /\ response = [r \in Reqs |-> NoResponse]
    /\ bg = [r \in Reqs |-> NoBg]
    /\ genLog = <<>>
    /\ flashcards = {}
    /\ nextFid = 1
    /\ fc = [s \in FcSlots |-> NoFc]
    /\ fcLog = <<>>
    /\ progress = {}
    /\ nextPid = 1
    /\ presp = NoPresp
    /\ statsCall = NoStatsCall

InitRollup ==
    /\ filePages = [f \in Files |-> << <<0, 1>> >>]
    /\ questions = RollupQuestions
    /\ nextQid = 11
    /\ pc = [r \in Reqs |-> "idle"]
    /\ handler = [r \in Reqs |-> NoHandler]
    /\ response = [r \in Reqs |-> NoResponse]
    /\ bg = [r \in Reqs |-> NoBg]
    /\ genLog = <<>>
    /\ flashcards = {}
    /\ nextFid = 1
    /\ fc = [s \in FcSlots |-> NoFc]
    /\ fcLog = <<>>
    /\ progress = {}
    /\ nextPid = 1
    /\ presp = NoPresp
    /\ statsCall = NoStatsCall

\* ------------------------------------------------------------------------
\* Arithmetic: percentages are kept in hundredths (5000 is 50.0)
\* ------------------------------------------------------------------------
\* what evaluating `a / 0` does
ZeroDivisionError == 0 - 1

\* a / b rounded half to even, as round(x, 2) rounds a tie
HalfEven(a, b) ==
    LET q == a \div b
        r == a % b
    IN IF 2 * r > b THEN q + 1
       ELSE IF 2 * r < b THEN q
       ELSE IF q % 2 = 0 THEN q ELSE q + 1

\* mutant of PercentOf: the fraction is not scaled to a percentage
PercentOf_NoScale(correct, total) ==
    IF total = 0 THEN ZeroDivisionError ELSE HalfEven(correct * 100, total)

\* round(correct / total * 100, 2), in hundredths
PercentOf(correct, total) ==
    IF total = 0 THEN ZeroDivisionError ELSE HalfEven(correct * 10000, total)

\* mutant of Accuracy: the guard against an empty denominator is missing
Accuracy_NoGuard(correct, total) == PercentOf(correct, total)

\* `(correct / total * 100) if total > 0 else 0.0`, then round(..., 2)
Accuracy(correct, total) == IF total > 0 THEN PercentOf(correct, total) ELSE 0

Max(S) == CHOOSE m \in S : \A x \in S : x <= m

RECURSIVE SetSum(_)
\* sum of the second components of a set of <<key, number>> pairs
SetSum(S) ==
    IF S = {} THEN 0
    ELSE LET x == CHOOSE x \in S : TRUE IN x[2] + SetSum(S \ {x})

\* ------------------------------------------------------------------------
\* Queries of the handlers
\* ------------------------------------------------------------------------
\* mutant of UserDocProgress: the document is not part of the filter
UserDocProgress_AllDocuments(user, document_id) ==
    { p \in progress : p.user_id = user }

\* `.filter(UserProgress.user_id == user.id, UserProgress.document_id == d)`
UserDocProgress(user, document_id) ==
    { p \in progress : p.user_id = user /\ p.document_id = document_id }

\* mutant of latest_attempts_subquery: the earliest attempt of each question
\* is selected
latest_attempts_subquery_min(user, document_id) ==
    LET mine == UserDocProgress(user, document_id)
    IN { [question_id |-> q,
          latest_id |-> CHOOSE m \in { p.id : p \in { x \in mine : x.question_id = q } } :
                          \A p \in { x \in mine : x.question_id = q } : m <= p.id]
         : q \in { p.question_id : p \in mine } }

\* SELECT question_id, max(id) AS latest_id ... GROUP BY question_id
latest_attempts_subquery(user, document_id) ==
    LET mine == UserDocProgress(user, document_id)
    IN { [question_id |-> q,
          latest_id |-> Max({ p.id : p \in { x \in mine : x.question_id = q } })]
         : q \in { p.question_id : p \in mine } }

\* count(UserProgress.id) JOIN subquery ON id = latest_id WHERE is_correct
correct_count(user, document_id) ==
    Cardinality({ p \in progress :
        /\ \E l \in latest_attempts_subquery(user, document_id) : p.id = l.latest_id
        /\ p.is_correct })

\* count(distinct(UserProgress.question_id))
questions_attempted(user, document_id) ==
    Cardinality({ p.question_id : p \in UserDocProgress(user, document_id) })

\* the DocumentProgressResponse get_document_progress builds
DocumentProgress(user, document_id) ==
    LET attempted == questions_attempted(user, document_id)
        correct == correct_count(user, document_id)
        mine == UserDocProgress(user, document_id)
    IN [document_id |-> document_id,
        total_questions |->
            Cardinality({ q \in questions : q.document_id = document_id }),
        questions_attempted |-> attempted,
        questions_correct |-> correct,
        questions_incorrect |-> IF attempted # 0 THEN attempted - correct ELSE 0,
        accuracy_percentage |-> Accuracy(correct, attempted),
        last_attempt |-> IF mine = {} THEN 0 ELSE Max({ p.timestamp : p \in mine })]

\* mutant of overall_accuracy: the mean of the per-document accuracies
overall_accuracy_mean(total_correct, total_attempted, documents_progress) ==
    IF documents_progress = {} THEN 0
    ELSE HalfEven(SetSum({ <<r.document_id, r.accuracy_percentage>> :
                              r \in documents_progress }),
                  Cardinality(documents_progress))

\* `(total_correct / total_questions_attempted * 100) if ... > 0 else 0.0`
overall_accuracy(total_correct, total_attempted, documents_progress) ==
    Accuracy(total_correct, total_attempted)

\* mutant of overall_document_progress: every correct attempt is counted,
\* not only the latest attempt of each question
overall_document_progress_AnyAttempt(user, doc) ==
    LET attempted == questions_attempted(user, doc.id)
        correct == Cardinality({ p \in UserDocProgress(user, doc.id) : p.is_correct })
        mine == UserDocProgress(user, doc.id)
    IN [document_id |-> doc.id,
        total_questions |-> Cardinality({ q \in questions : q.document_id = doc.id }),
        questions_attempted |-> attempted,
        questions_correct |-> correct,
        questions_incorrect |-> IF attempted # 0 THEN attempted - correct ELSE 0,
        accuracy_percentage |-> Accuracy(correct, attempted),
        last_attempt |-> IF mine = {} THEN 0 ELSE Max({ p.timestamp : p \in mine })]

\* the doc_progress one iteration of `for doc in documents_with_progress`
\* builds, from its own copies of the queries
overall_document_progress(user, doc) ==
    LET total_questions == Cardinality({ q \in questions : q.document_id = doc.id })
        attempted ==
            Cardinality({ p.question_id :
                p \in { x \in progress : x.user_id = user /\ x.document_id = doc.id } })
        latest ==
            { Max({ p.id : p \in { x \in progress : /\ x.user_id = user
                                                     /\ x.document_id = doc.id
                                                     /\ x.question_id = q } })
              : q \in { p.question_id :
                         p \in { x \in progress : x.user_id = user
                                                   /\ x.document_id = doc.id } } }
        correct == Cardinality({ p \in progress : p.id \in latest /\ p.is_correct })
        incorrect_count == IF attempted # 0 THEN attempted - correct ELSE 0
        accuracy == IF attempted > 0 THEN PercentOf(correct, attempted) ELSE 0
        stamps == { p.timestamp :
                      p \in { x \in progress : x.user_id = user /\ x.document_id = doc.id } }
    IN [document_id |-> doc.id,
        total_questions |-> total_questions,
        questions_attempted |-> attempted,
        questions_correct |-> correct,
        questions_incorrect |-> incorrect_count,
        accuracy_percentage |-> accuracy,
        last_attempt |-> IF stamps = {} THEN 0 ELSE Max(stamps)]

\* the body of OverallStatsResponse
OverallStats(user) ==
    LET documents_with_progress == { d \in StudyDocument : d.user_id = user }
        documents_progress ==
            { overall_document_progress(user, d) :
                d \in { e \in documents_with_progress :
                          questions_attempted(user, e.id) # 0 } }
        total_questions_attempted ==
            SetSum({ <<r.document_id, r.questions_attempted>> : r \in documents_progress })
        total_correct ==
            SetSum({ <<r.document_id, r.questions_correct>> : r \in documents_progress })
        total_incorrect ==
            SetSum({ <<r.document_id, r.questions_incorrect>> : r \in documents_progress })
    IN [total_documents_studied |-> Cardinality(documents_progress),
        total_questions_attempted |-> total_questions_attempted,
        total_correct |-> total_correct,
        total_incorrect |-> total_incorrect,
        overall_accuracy |->
            overall_accuracy(total_correct, total_questions_attempted, documents_progress),
        documents_progress |-> documents_progress]

\* the body of QuestionHistoryResponse (history: the record ids, most recent
\* first)
RECURSIVE ByTimestampDesc(_)
ByTimestampDesc(S) ==
    IF S = {} THEN <<>>
    ELSE LET p == CHOOSE p \in S : \A x \in S : x.timestamp <= p.timestamp
         IN <<p.id>> \o ByTimestampDesc(S \ {p})

QuestionHistory(user, question_id) ==
    LET progress_records ==
            { p \in progress : p.user_id = user /\ p.question_id = question_id }
        total_attempts == Cardinality(progress_records)
        correct_attempts == Cardinality({ p \in progress_records : p.is_correct })
    IN [total_attempts |-> total_attempts,
        correct_attempts |-> correct_attempts,
        incorrect_attempts |-> total_attempts - correct_attempts,
        accuracy_percentage |-> Accuracy(correct_attempts, total_attempts),
        history |-> ByTimestampDesc(progress_records)]

\* a response; an unhandled ZeroDivisionError ends in the generic 500
Answer(op, status, user, document_id, question_id, body) ==
    [op |-> op, status |-> status, user |-> user, document_id |-> document_id,
     question_id |-> question_id, body |-> body]

\* mutant of OwnsDocument: the owner of the document is not compared
OwnsDocument_AnyUser(user, document_id) ==
    \E d \in StudyDocument : d.id = document_id

OwnsDocument(user, document_id) ==
    \E d \in StudyDocument : d.id = document_id /\ d.user_id = user

\* ------------------------------------------------------------------------
\* Handlers
\* ------------------------------------------------------------------------
\* POST /progress/record
record_progress(user, document_id, question_id, selected_choice, is_correct) ==
    /\ IF ~OwnsDocument(user, document_id)
          \/ ~\E q \in questions : q.id = question_id /\ q.document_id = document_id
       THEN /\ presp' = Answer("record", 404, user, document_id, question_id, <<>>)
            /\ UNCHANGED <<progress, nextPid>>
       ELSE LET row == [id |-> nextPid, user_id |-> user, document_id |-> document_id,
                        question_id |-> question_id, is_correct |-> is_correct,
                        selected_choice |-> selected_choice, timestamp |-> nextPid]
            IN /\ progress' = progress \cup {row}
               /\ nextPid' = nextPid + 1
               /\ presp' = Answer("record", 201, user, document_id, question_id, row)
    /\ UNCHANGED <<filePages, questions, nextQid, pc, handler, response, bg, genLog,
                   flashVars, statsCall>>

\* GET /progress/document/{document_id}
get_document_progress(user, document_id) ==
    /\ presp' =
          IF ~OwnsDocument(user, document_id)
          THEN Answer("document_progress", 404, user, document_id, 0, <<>>)
          ELSE LET body == DocumentProgress(user, document_id)
               IN IF body.accuracy_percentage = ZeroDivisionError
                  THEN Answer("document_progress", 500, user, document_id, 0, <<>>)
                  ELSE Answer("document_progress", 200, user, document_id, 0, body)
    /\ UNCHANGED <<filePages, questions, nextQid, pc, handler, response, bg, genLog,
                   flashVars, progress, nextPid, statsCall>>

\* GET /progress/stats
get_overall_stats(user) ==
    /\ presp' =
          LET body == OverallStats(user)
          IN IF body.overall_accuracy = ZeroDivisionError
                \/ \E r \in body.documents_progress :
                      r.accuracy_percentage = ZeroDivisionError
             THEN Answer("overall_stats", 500, user, 0, 0, <<>>)
             ELSE Answer("overall_stats", 200, user, 0, 0, body)
    /\ UNCHANGED <<filePages, questions, nextQid, pc, handler, response, bg, genLog,
                   flashVars, progress, nextPid, statsCall>>

\* GET /progress/question/{question_id}
get_question_history(user, question_id) ==
    /\ presp' =
          IF ~\E q \in questions : q.id = question_id /\ OwnsDocument(user, q.document_id)
          THEN Answer("question_history", 404, user, 0, question_id, <<>>)
          ELSE LET body == QuestionHistory(user, question_id)
               IN IF body.accuracy_percentage = ZeroDivisionError
                  THEN Answer("question_history", 500, user, 0, question_id, <<>>)
                  ELSE Answer("question_history", 200, user, 0, question_id, body)
    /\ UNCHANGED <<filePages, questions, nextQid, pc, handler, response, bg, genLog,
                   flashVars, progress, nextPid, statsCall>>

\* mutant of clear_document_progress: the document is not looked up first
clear_document_progress_NoLookup(user, document_id) ==
    /\ progress' = progress \ UserDocProgress(user, document_id)
    /\ presp' = Answer("clear", 204, user, document_id, 0, <<>>)
    /\ UNCHANGED <<filePages, questions, nextQid, pc, handler, response, bg, genLog,
                   flashVars, nextPid, statsCall>>

\* DELETE /progress/document/{document_id}
clear_document_progress(user, document_id) ==
    /\ IF ~OwnsDocument(user, document_id)
       THEN /\ presp' = Answer("clear", 404, user, document_id, 0, <<>>)
            /\ UNCHANGED progress
       ELSE /\ progress' = progress \ UserDocProgress(user, document_id)
            /\ presp' = Answer("clear", 204, user, document_id, 0, <<>>)
    /\ UNCHANGED <<filePages, questions, nextQid, pc, handler, response, bg, genLog,
                   flashVars, nextPid, statsCall>>

QuestionIds == { q.id : q \in ProgressQuestions }

\* the ids of the stored questions
QuestionIdsAll == { q.id : q \in questions }

NextProgress ==
    \/ /\ nextPid <= MaxAttempts
       /\ \E user \in Users, document_id \in DocIds, question_id \in QuestionIds,
             selected_choice \in ChoiceIds, is_correct \in BOOLEAN :
             record_progress(user, document_id, question_id, selected_choice, is_correct)
    \/ \E user \in Users, document_id \in DocIds : get_document_progress(user, document_id)
    \/ \E user \in Users : get_overall_stats(user)
    \/ \E user \in Users, question_id \in QuestionIds :
          get_question_history(user, question_id)
    \/ \E user \in Users, document_id \in DocIds :
          clear_document_progress(user, document_id)

SpecProgress == InitProgress /\ [][NextProgress]_vars

\* The rollup scenario: u1 answers the ten questions of documents 1 and 3
\* once each, in the order of their ids, and asks for the overall statistics.
NextRollup ==
    \/ \E q \in questions, is_correct \in BOOLEAN :
          /\ q.id = nextPid
          /\ record_progress("u1", q.document_id, q.id, "A", is_correct)
    \/ get_overall_stats("u1")

SpecRollup == InitRollup /\ [][NextRollup]_vars

\* ------------------------------------------------------------------------
\* Vocabulary of the aggregation claims
\* ------------------------------------------------------------------------
\* the attempts of a user on a question of a document
AttemptsOn(user, document_id, question_id) ==
    { p \in progress : /\ p.user_id = user
                       /\ p.document_id = document_id
                       /\ p.question_id = question_id }

\* the questions of a document the user has attempted
AttemptedQuestions(user, document_id) ==
    { q \in QuestionIdsAll : AttemptsOn(user, document_id, q) # {} }

\* the questions whose attempt that no other attempt follows is correct
LatestCorrect(user, document_id) ==
    { q \in AttemptedQuestions(user, document_id) :
        \E p \in AttemptsOn(user, document_id, q) :
            /\ p.is_correct
            /\ \A o \in AttemptsOn(user, document_id, q) : o.id <= p.id }

\* acc (hundredths of a percent) is correct/total as a percentage, to the
\* nearest hundredth
IsPercentage(acc, correct, total) ==
    /\ 2 * (acc * total - correct * 10000) <= total
    /\ 2 * (correct * 10000 - acc * total) <= total

\* the <<document, question>> pairs a user has attempted, and those whose
\* latest attempt is correct
AttemptedPairs(user) ==
    { <<d, q>> \in DocIds \X QuestionIdsAll : q \in AttemptedQuestions(user, d) }

LatestCorrectPairs(user) ==
    { <<d, q>> \in DocIds \X QuestionIdsAll : q \in LatestCorrect(user, d) }

\* C3: every document-progress answer reports attempted = the number of
\* distinct questions among the user's attempts on the document, correct =
\* the number of those whose attempt with the largest id is correct,
\* incorrect = attempted - correct, and the accuracy of correct over
\* attempted; earlier attempts of a question play no part.
C3_LatestAttemptDecides ==
    (presp.op = "document_progress" /\ presp.status = 200) =>
        LET attempted == Cardinality(AttemptedQuestions(presp.user, presp.document_id))
            correct == Cardinality(LatestCorrect(presp.user, presp.document_id))
        IN /\ presp.body.questions_attempted = attempted
           /\ presp.body.questions_correct = correct
           /\ presp.body.questions_incorrect = attempted - correct
           /\ attempted > 0 =>
                 IsPercentage(presp.body.accuracy_percentage, correct, attempted)

\* the example of C3: question 1 wrong, question 2 wrong, question 1 right,
\* in this order of ids, answered with 2 / 1 / 1 / 50.0
C3_Witness ==
    /\ presp.op = "document_progress" /\ presp.status = 200
    /\ presp.user = "u1" /\ presp.document_id = 1
    /\ { <<p.id, p.question_id, p.is_correct>> : p \in UserDocProgress("u1", 1) }
          = { <<1, 1, FALSE>>, <<2, 2, FALSE>>, <<3, 1, TRUE>> }
    /\ presp.body.questions_attempted = 2
    /\ presp.body.questions_correct = 1
    /\ presp.body.questions_incorrect = 1
    /\ presp.body.accuracy_percentage = 5000

\* C8: every overall-statistics answer reports the sums of attempted,
\* correct and incorrect over the user's documents, and the accuracy of the
\* summed correct over the summed attempted.
C8_OverallFromSums ==
    (presp.op = "overall_stats" /\ presp.status = 200) =>
        LET attempted == Cardinality(AttemptedPairs(presp.user))
            correct == Cardinality(LatestCorrectPairs(presp.user))
        IN /\ presp.body.total_questions_attempted = attempted
           /\ presp.body.total_correct = correct
           /\ presp.body.total_incorrect = attempted - correct
           /\ attempted > 0 =>
                 IsPercentage(presp.body.overall_accuracy, correct, attempted)

\* an answer over two documents where the mean of the per-document
\* accuracies is not the reported overall accuracy
C8_Witness ==
    /\ presp.op = "overall_stats" /\ presp.status = 200
    /\ Cardinality(presp.body.documents_progress) = 2
    /\ presp.body.total_questions_attempted = 3
    /\ presp.body.overall_accuracy = 6667
    /\ { r.accuracy_percentage : r \in presp.body.documents_progress } = {5000, 10000}

\* the answer of the rollup example: two documents, 3 of 4 and 3 of 6
RollupExample ==
    /\ presp.op = "overall_stats" /\ presp.status = 200
    /\ { <<r.questions_attempted, r.questions_correct>> :
           r \in presp.body.documents_progress } = { <<4, 3>>, <<6, 3>> }
    /\ Cardinality(presp.body.documents_progress) = 2

\* C9 as stated: with documents at 3 of 4 and 3 of 6 the overall accuracy
\* is 30.0
C9_RollupIsThirty == RollupExample => presp.body.overall_accuracy = 3000

\* C9: with documents at 3 of 4 and 3 of 6 the overall accuracy is 60.0
\* (6 of 10), which is not the mean 62.5 of 75.0 and 50.0
C9_RollupIsSixty ==
    RollupExample =>
        /\ presp.body.overall_accuracy = 6000
        /\ { r.accuracy_percentage : r \in presp.body.documents_progress } = {7500, 5000}
        /\ presp.body.total_correct = 6
        /\ presp.body.total_questions_attempted = 10

C9_Witness == RollupExample /\ presp.body.overall_accuracy = 6000

\* C10: no statistics endpoint ends in a division error; with no attempt of
\* the user on the document, document progress is 0.0 / 0 / 0; with no
\* attempt of the user at all, the overall accuracy is 0.0; with no attempt
\* of the user on the question, the question's accuracy is 0.0.
C10_NoAttemptsIsZero ==
    /\ presp.op \in {"document_progress", "overall_stats", "question_history"} =>
          presp.status # 500
    /\ (/\ presp.op = "document_progress" /\ presp.status = 200
        /\ AttemptedQuestions(presp.user, presp.document_id) = {}) =>
          /\ presp.body.accuracy_percentage = 0
          /\ presp.body.questions_correct = 0
          /\ presp.body.questions_incorrect = 0
    /\ (/\ presp.op = "overall_stats"
        /\ AttemptedPairs(presp.user) = {}) =>
          /\ presp.status = 200
          /\ presp.body.overall_accuracy = 0
    /\ (/\ presp.op = "question_history" /\ presp.status = 200
        /\ ~\E p \in progress :
              p.user_id = presp.user /\ p.question_id = presp.question_id) =>
          presp.body.accuracy_percentage = 0

\* document progress asked after the user's attempts were bulk-cleared
C10_Witness ==
    /\ presp.op = "document_progress" /\ presp.status = 200
    /\ presp.user = "u1" /\ presp.document_id = 1
    /\ nextPid > 1
    /\ \A p \in progress : p.user_id # "u1"
    /\ presp.body.questions_attempted = 0
    /\ presp.body.accuracy_percentage = 0

\* ========================================================================
\* Further claims of the staged generation pipeline
\* ========================================================================
\* the pages of the file a request named, as stored on disk
RawPagesOf(r) == filePages[handler[r].filename]

\* C11: the page_count of a generation response is the number of pages the
\* extractor returned for the file, and every persisted Question, written by
\* the synchronous stage or by a background thread, carries a page number
\* between 1 and that number (for the request that wrote it and for the
\* document it is stored under).
C11_PageNumbersInRange ==
    /\ \A r \in Reqs :
          response[r].status = 200 =>
              /\ response[r].page_count = Len(extract_text_from_file(handler[r].filename))
              /\ response[r].page_count = Len(RawPagesOf(r))
    /\ \A q \in questions :
          /\ q.page_number >= 1
          /\ q.page_number <= Len(RawPagesOf(q.by.req))
          /\ \A d \in StudyDocument :
                d.id = q.document_id => q.page_number <= Len(filePages[d.filename])

\* a three-page request answered with page_count 3 whose document holds
\* questions of page 1 and of page 3
C11_Witness ==
    \E r \in Reqs :
        /\ response[r].status = 200
        /\ response[r].page_count = 3
        /\ \E q \in questions : q.by.req = r /\ q.by.unit = "fg" /\ q.page_number = 1
        /\ \E q \in questions : q.by.req = r /\ q.by.unit = "bg" /\ q.page_number = 3

\* C12: a request that got past the synchronous stage has a background
\* thread if and only if extraction yielded more than one page, whatever page
\* 1 yielded; a request that failed or has not run has none; a thread is
\* created only by the handler's step from idle to started and only where
\* none existed, so a request never has two.
C12_ThreadIffMultiPage ==
    /\ [](\A r \in Reqs :
            /\ pc[r] \in {"started", "responded"} =>
                  (bg[r].state # "none" <=> Len(RawPagesOf(r)) > 1)
            /\ pc[r] \in {"idle", "failed"} => bg[r].state = "none")
    /\ [][\A r \in Reqs :
            (bg[r].state # "spawned" /\ bg'[r].state = "spawned") =>
                /\ bg[r].state = "none"
                /\ pc[r] = "idle" /\ pc'[r] = "started"]_vars

\* a thread is running for a request whose first page is blank and whose
\* synchronous stage produced nothing
C12_Witness ==
    \E r \in Reqs :
        /\ pc[r] = "responded"
        /\ Len(RawPagesOf(r)) > 1
        /\ IsBlank(RawPagesOf(r)[1])
        /\ response[r].questions = <<>>
        /\ bg[r].state = "running"

\* C13: no generation call is made and no Question is persisted for a page
\* whose text is blank, in either stage, and every persisted Question is
\* tagged with the 1-based position, in the file, of the page whose text it
\* was generated from: skipped blank pages shift nothing.
C13_BlankPagesSkipped ==
    /\ \A i \in 1..Len(genLog) :
          /\ genLog[i].page \in 1..Len(RawPagesOf(genLog[i].req))
          /\ ~IsBlank(RawPagesOf(genLog[i].req)[genLog[i].page])
    /\ \A q \in questions :
          /\ q.page_number \in 1..Len(RawPagesOf(q.by.req))
          /\ ~IsBlank(RawPagesOf(q.by.req)[q.page_number])
          /\ q.about = Strip(RawPagesOf(q.by.req)[q.page_number])
    /\ \A r \in Reqs :
          bg[r].state \in {"running", "committing"} =>
              \A p \in 2..(bg[r].page_idx - 1) :
                  IsBlank(RawPagesOf(r)[p]) =>
                      CallsFor(r, "bg", p) = {} /\ RowsOf(r, "bg", p) = {}

\* pages 1 and 2 are blank and were skipped without a call; the thread
\* stored questions of page 3 tagged 3
C13_Witness ==
    \E r \in Reqs :
        /\ pc[r] = "responded"
        /\ Len(RawPagesOf(r)) = 3
        /\ IsBlank(RawPagesOf(r)[1]) /\ IsBlank(RawPagesOf(r)[2])
        /\ CallsFor(r, "fg", 1) = {} /\ CallsFor(r, "bg", 2) = {}
        /\ RowsOf(r, "bg", 3) # {}
        /\ \A q \in questions : q.page_number = 3

\* ========================================================================
\* FlashcardCache under concurrent requests
\* ========================================================================
\* Requests of u1 for a.pdf served by both slots: generate_flashcards is an
\* `async def` that awaits the generation calls, so a second request can run
\* its existence check while the first one is waiting for its replies.
FlashConcRequests == { <<"u1", "a.pdf">> }

NextFlashConc ==
    \/ \E s \in FcSlots, rq \in FlashConcRequests, extractOk \in BOOLEAN :
          generate_flashcards(s, rq[1], rq[2], extractOk)
    \/ \E s \in FcSlots :
          \E llm \in [NonBlankPages(fc[s].pages_text) -> FlashcardOutcomes],
             persistOk \in BOOLEAN :
             generate_flashcards_store(s, llm, persistOk)

\* a.pdf has a page with text and a page without
InitFlashConc ==
    /\ filePages = [f \in Files |->
                      IF f = "a.pdf" THEN << <<0, 1>>, <<0>> >> ELSE << <<0, 1>> >>]
    /\ questions = {}
    /\ nextQid = 1
    /\ pc = [r \in Reqs |-> "idle"]
    /\ handler = [r \in Reqs |-> NoHandler]
    /\ response = [r \in Reqs |-> NoResponse]
    /\ bg = [r \in Reqs |-> NoBg]
    /\ genLog = <<>>
    /\ flashcards = {}
    /\ nextFid = 1
    /\ fc = [s \in FcSlots |-> NoFc]
    /\ fcLog = <<>>
    /\ progress = {}
    /\ nextPid = 1
    /\ presp = NoPresp
    /\ statsCall = NoStatsCall

SpecFlashConc == InitFlashConc /\ [][NextFlashConc]_vars

\* positions in fcLog of the requests that generated and stored cards for a
\* document
GenerationsFor(document_id) ==
    { i \in 1..Len(fcLog) :
        /\ fcLog[i].source = "generated"
        /\ document_id \in DocOf(fcLog[i].user, fcLog[i].filename) }

\* C14 as stated: under any interleaving of flashcard requests for the same
\* document, the Flashcards stored for the document were created by one
\* generation: no two requests generated for it, and the stored set is the
\* set the one generation stored.
C14_OneGenerationPerDocument ==
    \A d \in DocIds :
        /\ Cardinality(GenerationsFor(d)) <= 1
        /\ \A i \in GenerationsFor(d) : ExistingFlashcards(d) = fcLog[i].cards

\* ------------------------------------------------------------------------
\* Claims of the flashcard cache for requests made one after the other
\* ------------------------------------------------------------------------
\* the entry a step has just appended to fcLog
Completed == fcLog'[Len(fcLog')]

\* C15: a flashcard request that fails (extraction, generation, a flush or
\* the commit) leaves the Flashcard rows as they were, so its document, which
\* had none, still has none; a request that generates stores all the cards it
\* returns, none of which existed before, in the same step; at any time a
\* document has no Flashcard rows or exactly the set one request stored.
C15_AllOrNothing ==
    /\ [][Len(fcLog') = Len(fcLog) + 1 =>
            /\ Completed.status # 200 =>
                  /\ flashcards' = flashcards
                  /\ Completed.cards = {}
                  /\ Completed.status = 500 =>
                        \A d \in DocOf(Completed.user, Completed.filename) :
                            { c \in flashcards' : c.document_id = d } = {}
            /\ Completed.source = "generated" =>
                  /\ Completed.cards # {}
                  /\ Completed.cards \cap flashcards = {}
                  /\ flashcards' = flashcards \cup Completed.cards
                  /\ \A c \in Completed.cards :
                        c.document_id \in DocOf(Completed.user, Completed.filename)]_vars
    /\ [](\A d \in DocIds :
            \/ ExistingFlashcards(d) = {}
            \/ \E i \in GenerationsFor(d) : ExistingFlashcards(d) = fcLog[i].cards)

\* a request whose persisting failed after its generation calls left the
\* document without cards; the next request for the document generated and
\* stored a set of two or more cards
C15_Witness ==
    /\ Len(fcLog) = 2
    /\ fcLog[1].source = "persist_error" /\ fcLog[1].calls > 0
    /\ fcLog[2].source = "generated"
    /\ fcLog[2].user = fcLog[1].user /\ fcLog[2].filename = fcLog[1].filename
    /\ Cardinality(fcLog[2].cards) >= 2
    /\ flashcards = fcLog[2].cards

\* C16 as stated: a flashcard request on a document without flashcards whose
\* extraction succeeded fails with "no text" exactly when the extractor
\* returned no non-blank page (no page at all, or blank pages only), and
\* with "generation empty" only when there is a non-blank page and the calls
\* yielded no card.
C16_ErrorKinds ==
    \A i \in 1..Len(fcLog) :
        LET e == fcLog[i]
            pages_text == extract_text_from_file(e.filename)
        IN e.source \in {"no_text", "empty", "generated", "persist_error"} =>
              /\ NonBlankPages(pages_text) = {} <=> e.source = "no_text"
              /\ e.source = "empty" => e.calls > 0

\* ------------------------------------------------------------------------
\* Claims of the attempt log
\* ------------------------------------------------------------------------
\* the request names a document of the user and a question of that document
Recordable(user, document_id, question_id) ==
    /\ \E d \in StudyDocument : d.id = document_id /\ d.user_id = user
    /\ \E q \in questions : q.id = question_id /\ q.document_id = document_id

\* C17: a call of POST /progress/record is answered 404, and adds no row,
\* exactly when the document is not one of the caller's or the question is
\* not one of that document; so every stored row names a user who owns its
\* document and a question of that document.
C17_RecordRejectsForeign ==
    /\ [](presp.op = "record" =>
            /\ presp.status \in {201, 404}
            /\ presp.status = 404 <=>
                  ~Recordable(presp.user, presp.document_id, presp.question_id))
    /\ [][(presp'.op = "record" /\ presp'.status = 404) => progress' = progress]_vars
    /\ [](\A p \in progress : Recordable(p.user_id, p.document_id, p.question_id))

\* u1 named an own document and an own question of another document and was
\* answered 404, with the earlier rows left as they were
C17_Witness ==
    /\ presp.op = "record" /\ presp.status = 404
    /\ presp.user = "u1" /\ presp.document_id = 1 /\ presp.question_id = 3
    /\ Cardinality(progress) = 2
    /\ nextPid = 3

\* C18: a recorded attempt adds exactly one row, with an id greater than
\* every id in the log, and leaves the rows of the log as they are; rows
\* leave the log only by the bulk clear of a document, which removes exactly
\* the caller's rows of that document; statistics calls change nothing.
C18_AppendOnly ==
    [][/\ (presp'.op = "record" /\ presp'.status = 201) =>
             \E row \in progress' :
                 /\ row \notin progress
                 /\ progress' = progress \cup {row}
                 /\ \A p \in progress : row.id > p.id
                 /\ [user |-> row.user_id, document_id |-> row.document_id,
                     question_id |-> row.question_id]
                      = [user |-> presp'.user, document_id |-> presp'.document_id,
                         question_id |-> presp'.question_id]
       /\ (progress \ progress') # {} =>
             /\ presp'.op = "clear" /\ presp'.status = 204
             /\ progress' \subseteq progress
             /\ progress \ progress' =
                   { p \in progress : /\ p.user_id = presp'.user
                                      /\ p.document_id = presp'.document_id }
       /\ presp'.op \in {"document_progress", "overall_stats", "question_history"} =>
             progress' = progress]_vars

\* three attempts of u1 on question 1 are all in the log
C18_Witness ==
    /\ presp.op = "record" /\ presp.status = 201
    /\ Cardinality({ p \in progress : p.user_id = "u1" /\ p.question_id = 1 }) = 3

\* ========================================================================
\* The generation pipeline under arbitrary request bodies and replies
\* ========================================================================
\* candidates that convert without raising, whatever their correct_answer:
\* the id of a choice, an id of no choice, or "" for a missing key
AnswerCandidates ==
    { [wf |-> TRUE, choices |-> <<"A", "B">>, correct_answer |-> a] :
        a \in {"A", "Z", ""} }

AnswerOutcomes ==
    { [kind |-> "api_error", cands |-> <<>>] }
    \cup { [kind |-> "json", cands |-> c] : c \in SeqsUpTo(AnswerCandidates, MaxCand) }

\* values of num_questions a request body carries (MCQRequest declares an
\* int without bounds)
NumQuestionsInputs == {0, 1, 10, 11}

\* a.pdf has two pages with text
InitRequests ==
    /\ filePages = [f \in Files |->
                      IF f = "a.pdf" THEN << <<0, 1>>, <<0, 2>> >> ELSE << <<0, 1>> >>]
    /\ questions = {}
    /\ nextQid = 1
    /\ pc = [r \in Reqs |-> "idle"]
    /\ handler = [r \in Reqs |-> NoHandler]
    /\ response = [r \in Reqs |-> NoResponse]
    /\ bg = [r \in Reqs |-> NoBg]
    /\ genLog = <<>>
    /\ flashcards = {}
    /\ nextFid = 1
    /\ fc = [s \in FcSlots |-> NoFc]
    /\ fcLog = <<>>
    /\ progress = {}
    /\ nextPid = 1
    /\ presp = NoPresp
    /\ statsCall = NoStatsCall

NextRequests ==
    \/ \E r \in Solo, num_questions \in NumQuestionsInputs, llm \in AnswerOutcomes,
          commitOk \in BOOLEAN :
          generate_mcq_questions(r, "u1", "a.pdf", num_questions, TRUE, llm, commitOk)
    \/ \E r \in Solo : generate_mcq_questions_return(r)
    \/ \E r \in Solo : process_remaining_pages_start(r)
    \/ \E r \in Solo, llm \in AnswerOutcomes : process_remaining_pages_page(r, llm)
    \/ \E r \in Solo, commitOk \in BOOLEAN : process_remaining_pages_commit(r, commitOk)
    \/ \E r \in Solo : process_remaining_pages_end(r)

SpecRequests == InitRequests /\ [][NextRequests]_vars

\* the correct answer of a question is the id of one of its choices
AnswerIsAChoice(q) == \E i \in 1..Len(q.choices) : q.choices[i] = q.correct_answer

\* C19 as stated: every persisted Question, and every Question of a
\* response, has a correct answer that is the id of one of its own choices.
C19_CorrectAnswerIsAChoice ==
    /\ \A q \in questions : AnswerIsAChoice(q)
    /\ \A r \in Reqs : \A i \in 1..Len(response[r].questions) :
          AnswerIsAChoice(response[r].questions[i])

\* C20 as stated: a request whose num_questions is outside 1..10 is rejected
\* before any work: it fails, no generation call is made for it, no Question
\* of it is persisted and it has no background thread.
C20_CountOutOfRangeRejected ==
    \A r \in Reqs :
        (pc[r] # "idle" /\ handler[r].num_questions \notin 1..10) =>
            /\ pc[r] = "failed"
            /\ \A i \in 1..Len(genLog) : genLog[i].req # r
            /\ \A q \in questions : q.by.req # r
            /\ bg[r].state = "none"

\* ========================================================================
\* Order and termination of the background thread
\* ========================================================================
\* positions in genLog of the calls the thread of a request made
BgCalls(r) == { i \in 1..Len(genLog) : genLog[i].req = r /\ genLog[i].unit = "bg" }

\* C21: the thread of a request makes its generation calls in increasing
\* page number, at most one per page; the rows it stored for a later page
\* have larger ids than those of an earlier page; and whenever a call for a
\* page has been made, the Questions of every page the thread called for
\* before are committed.
C21_PagesInOrder ==
    \A r \in Reqs :
        /\ \A i \in BgCalls(r) : \A j \in BgCalls(r) :
              i < j =>
                  /\ genLog[i].page < genLog[j].page
                  /\ Cardinality(RowsOf(r, "bg", genLog[i].page)) = genLog[i].yielded
        /\ \A q1 \in questions : \A q2 \in questions :
              ( /\ q1.by = [req |-> r, unit |-> "bg"]
                /\ q2.by = [req |-> r, unit |-> "bg"]
                /\ q1.page_number < q2.page_number ) => q1.id < q2.id

\* the call for page 3 has just been made, after the call for page 2 whose
\* questions are in the store
C21_Witness ==
    \E r \in Reqs :
        /\ bg[r].state = "committing"
        /\ bg[r].page_idx = 3
        /\ Cardinality(BgCalls(r)) = 2
        /\ RowsOf(r, "bg", 2) # {}
        /\ RowsOf(r, "bg", 3) = {}

\* ========================================================================
\* Two generation requests of one user for the same file, in flight together
\* ========================================================================
\* replies of the generation call in this specification: an exception, or
\* JSON with one well-formed candidate
PairOutcomes ==
    { [kind |-> "api_error", cands |-> <<>>],
      [kind |-> "json",
       cands |-> << [wf |-> TRUE, choices |-> <<"A", "B">>, correct_answer |-> "A"] >>] }

\* a.pdf has three pages with text
InitPair ==
    /\ filePages = [f \in Files |->
                      IF f = "a.pdf" THEN << <<0, 1>>, <<0, 2>>, <<0, 3>> >>
                                     ELSE << <<0, 1>> >>]
    /\ questions = {}
    /\ nextQid = 1
    /\ pc = [r \in Reqs |-> "idle"]
    /\ handler = [r \in Reqs |-> NoHandler]
    /\ response = [r \in Reqs |-> NoResponse]
    /\ bg = [r \in Reqs |-> NoBg]
    /\ genLog = <<>>
    /\ flashcards = {}
    /\ nextFid = 1
    /\ fc = [s \in FcSlots |-> NoFc]
    /\ fcLog = <<>>
    /\ progress = {}
    /\ nextPid = 1
    /\ presp = NoPresp
    /\ statsCall = NoStatsCall

\* each request is handled on the event loop and its thread is started with
\* threading.Thread(...).start(); nothing orders the threads of two requests
NextPair ==
    \/ \E r \in Reqs, llm \in PairOutcomes, commitOk \in BOOLEAN :
          generate_mcq_questions(r, "u1", "a.pdf", DefaultNumQuestions, TRUE, llm, commitOk)
    \/ \E r \in Reqs : generate_mcq_questions_return(r)
    \/ \E r \in Reqs : process_remaining_pages_start(r)
    \/ \E r \in Reqs, llm \in PairOutcomes : process_remaining_pages_page(r, llm)
    \/ \E r \in Reqs, commitOk \in BOOLEAN : process_remaining_pages_commit(r, commitOk)
    \/ \E r \in Reqs : process_remaining_pages_end(r)

SpecPair == InitPair /\ [][NextPair]_vars

\* the thread of a request is between its document lookup and its end
BgActive(r) == bg[r].state \in {"running", "committing"}

\* the rows a thread stored for a document
BgRowsOn(r, document_id) ==
    { q \in questions : q.by = [req |-> r, unit |-> "bg"] /\ q.document_id = document_id }

\* C22 as stated: the threads of two requests for the same document are never
\* active at the same time, the rows one of them stored are not enclosed by
\* rows of the other, and no page 2..N of the document has rows of both.
C22_BackgroundSerialized ==
    \A r1 \in Reqs : \A r2 \in Reqs \ {r1} :
        /\ ~( /\ BgActive(r1) /\ BgActive(r2)
              /\ bg[r1].document_id = bg[r2].document_id )
        /\ \A d \in StudyDocument :
              /\ \A q1 \in BgRowsOn(r1, d.id) : \A q3 \in BgRowsOn(r1, d.id) :
                    \A q2 \in BgRowsOn(r2, d.id) : ~(q1.id < q2.id /\ q2.id < q3.id)
              /\ \A q1 \in BgRowsOn(r1, d.id) : \A q2 \in BgRowsOn(r2, d.id) :
                    q1.page_number # q2.page_number

\* ------------------------------------------------------------------------
\* C23 as stated: the response of a request that started a thread is returned
\* before the thread has ended.
C23_ResponseBeforeCompletion ==
    \A r \in Reqs : bg[r].state \in BgTerminal => pc[r] = "responded"

\* C23: the handler does not wait for its thread. Once thread.start() has
\* returned, the return statement can be executed in whatever state the
\* thread is; it gives the page count and the page-1 questions the handler
\* computed before the thread was started and leaves the thread, the log and
\* the stored questions alone; and no step of the thread changes the
\* handler's position, its locals or a response. The response may therefore
\* come before the thread has started, while it runs, or after it has ended.
C23_ResponseNotAwaited ==
    /\ [](\A r \in Reqs : pc[r] = "started" => ENABLED generate_mcq_questions_return(r))
    /\ [][\A r \in Reqs :
            /\ generate_mcq_questions_return(r) =>
                  /\ bg' = bg /\ genLog' = genLog /\ questions' = questions
                  /\ response'[r] = [status |-> 200,
                                     page_count |-> handler[r].page_count,
                                     questions |-> handler[r].first_page_questions]
            /\ BgStep(r) => (pc' = pc /\ handler' = handler /\ response' = response)]_vars

\* a response was returned while the thread it started had not yet run
C23_Witness ==
    \E r \in Reqs :
        /\ pc[r] = "responded"
        /\ response[r].status = 200
        /\ bg[r].state = "spawned"

\* ------------------------------------------------------------------------
\* C24 as stated: every Question the thread of a request persists belongs to
\* the document of the requesting user that has the request's filename, the
\* document the page-1 Questions of the request belong to.
C24_BackgroundSameDocument ==
    \A r \in Reqs : \A q \in questions :
        q.by = [req |-> r, unit |-> "bg"] =>
            /\ q.document_id \in DocOf(handler[r].user, handler[r].filename)
            /\ \A q1 \in RowsOf(r, "fg", 1) : q1.document_id = q.document_id

\* ------------------------------------------------------------------------
\* the rows the thread of a request stored
BgRows(r) == { q \in questions : q.by = [req |-> r, unit |-> "bg"] }

\* C25: every started thread ends, given that each generation call returns
\* and the thread is scheduled. It ends after the last page, or at the
\* document lookup with nothing called and nothing stored, or at a failed
\* commit with the rows of the pages before it in the store and none of the
\* failing or a later page. Its session is closed exactly when it has ended,
\* and a thread that has ended makes no further call and stores no further
\* row.
C25_BackgroundTerminates ==
    /\ \A r \in Solo :
          bg[r].state = "spawned" ~> (bg[r].state \in BgTerminal /\ bg[r].closed)
    /\ [](\A r \in Reqs :
            /\ bg[r].closed <=> bg[r].state \in BgTerminal
            /\ bg[r].state = "done" =>
                  bg[r].page_idx = Len(bg[r].remaining_pages) + 2
            /\ bg[r].state = "notfound" => (BgRows(r) = {} /\ BgCalls(r) = {})
            /\ bg[r].state = "error" =>
                  /\ bg[r].pending = <<>>
                  /\ \A p \in 2..(bg[r].page_idx - 1) :
                        Cardinality(RowsOf(r, "bg", p)) = ExpectedRows(r, p)
                  /\ \A q \in BgRows(r) : q.page_number < bg[r].page_idx)
    /\ [][\A r \in Reqs :
            bg[r].state \in BgTerminal =>
                /\ bg'[r] = bg[r]
                /\ { i \in 1..Len(genLog') : genLog'[i].req = r /\ genLog'[i].unit = "bg" }
                       = BgCalls(r)
                /\ { q \in questions' : q.by = [req |-> r, unit |-> "bg"] } = BgRows(r)]_vars

\* a thread halted at the commit of page 3 with its session closed and the
\* questions of page 2 in the store
C25_Witness ==
    \E r \in Reqs :
        /\ bg[r].state = "error"
        /\ bg[r].closed
        /\ bg[r].page_idx = 3
        /\ RowsOf(r, "bg", 2) # {}
        /\ RowsOf(r, "bg", 3) = {}

\* ========================================================================
\* Overall statistics against document statistics
\* ========================================================================
\* C26: an overall-statistics answer has one row for each document of the
\* caller on which the caller has at least one attempt and no other row (so
\* no row with zero attempted questions), and each row is what the
\* document-statistics handler computes for that user and document in the
\* same state.
C26_OverallRowsAreDocumentStats ==
    (presp.op = "overall_stats" /\ presp.status = 200) =>
        LET rows == presp.body.documents_progress
            studied == { d \in DocIds : /\ OwnsDocument(presp.user, d)
                                        /\ UserDocProgress(presp.user, d) # {} }
        IN /\ { r.document_id : r \in rows } = studied
           /\ Cardinality(rows) = Cardinality(studied)
           /\ presp.body.total_documents_studied = Cardinality(studied)
           /\ \A r \in rows :
                 /\ r = DocumentProgress(presp.user, r.document_id)
                 /\ r.questions_attempted > 0

\* u1 asked for the overall statistics with a question of document 1
\* answered correctly and then incorrectly and nothing attempted of
\* document 3
C26_Witness ==
    /\ presp.op = "overall_stats" /\ presp.status = 200 /\ presp.user = "u1"
    /\ { r.document_id : r \in presp.body.documents_progress } = {1}
    /\ \E p1 \in progress : \E p2 \in progress :
          /\ p1.user_id = "u1" /\ p2.user_id = "u1"
          /\ p1.question_id = p2.question_id
          /\ p1.id < p2.id
          /\ p1.is_correct /\ ~p2.is_correct

\* ------------------------------------------------------------------------
\* C27: a bulk clear is answered 404 exactly when the document is not one of
\* the caller's, and then removes nothing; otherwise it removes the caller's
\* attempts on that document and no other row: the attempts of other users
\* and on other documents stay, and so do all questions, flashcards and
\* files.
C27_ClearFrame ==
    [][presp'.op = "clear" =>
          /\ presp'.status \in {204, 404}
          /\ presp'.status = 404 <=>
                ~\E d \in StudyDocument :
                     d.id = presp'.document_id /\ d.user_id = presp'.user
          /\ presp'.status = 404 => progress' = progress
          /\ presp'.status = 204 =>
                progress' = { p \in progress : ~( /\ p.user_id = presp'.user
                                                  /\ p.document_id = presp'.document_id ) }
          /\ questions' = questions
          /\ flashcards' = flashcards
          /\ filePages' = filePages]_vars

\* u1 cleared document 1 after attempts of u1 on documents 1 and 3 and of u2
\* on document 2: the other two attempts are still in the log
C27_Witness ==
    /\ presp.op = "clear" /\ presp.status = 204
    /\ presp.user = "u1" /\ presp.document_id = 1
    /\ nextPid = 4
    /\ { <<p.user_id, p.document_id>> : p \in progress } = { <<"u1", 3>>, <<"u2", 2>> }

\* ------------------------------------------------------------------------
\* C28 as stated: each question of the response of a generation request is
\* one of the rows the request stored for page 1 and has that row's id.
C28_ResponseCarriesPersistedIds ==
    \A r \in Reqs :
        response[r].status = 200 =>
            \A i \in 1..Len(response[r].questions) :
                \E q \in RowsOf(r, "fg", 1) :
                    /\ q.id = response[r].questions[i].id
                    /\ q.about = response[r].questions[i].about
                    /\ q.choices = response[r].questions[i].choices
                    /\ q.correct_answer = response[r].questions[i].correct_answer

\* ========================================================================
\* Document statistics while the attempt log changes
\* ========================================================================
\* get_document_progress issues its queries one after the other on a session
\* without a snapshot (READ COMMITTED on the configured PostgreSQL): each
\* query sees what other requests have committed by then.
\* The document lookup and `total_questions = ...count()`
get_document_progress_total(user, document_id) ==
    /\ statsCall.at = "idle"
    /\ IF ~OwnsDocument(user, document_id)
       THEN /\ presp' = Answer("document_progress", 404, user, document_id, 0, <<>>)
            /\ UNCHANGED statsCall
       ELSE /\ statsCall' =
                  [at |-> "total", user |-> user, document_id |-> document_id,
                   total_questions |->
                       Cardinality({ q \in questions : q.document_id = document_id }),
                   questions_attempted |-> 0, correct_count |-> 0]
            /\ UNCHANGED presp
    /\ UNCHANGED <<filePages, questions, nextQid, pc, handler, response, bg, genLog,
                   flashVars, progress, nextPid>>

\* `questions_attempted = ...count(distinct(question_id))...scalar()`
get_document_progress_attempted ==
    /\ statsCall.at = "total"
    /\ statsCall' = [statsCall EXCEPT
          !.at = "attempted",
          !.questions_attempted =
              questions_attempted(statsCall.user, statsCall.document_id)]
    /\ UNCHANGED <<filePages, questions, nextQid, pc, handler, response, bg, genLog,
                   flashVars, progress, nextPid, presp>>

\* `correct_count = ...join(latest_attempts_subquery)...scalar()`
get_document_progress_correct ==
    /\ statsCall.at = "attempted"
    /\ statsCall' = [statsCall EXCEPT
          !.at = "correct",
          !.correct_count = correct_count(statsCall.user, statsCall.document_id)]
    /\ UNCHANGED <<filePages, questions, nextQid, pc, handler, response, bg, genLog,
                   flashVars, progress, nextPid, presp>>

\* incorrect_count, accuracy, the last_attempt query and the response
get_document_progress_return ==
    /\ statsCall.at = "correct"
    /\ LET attempted == statsCall.questions_attempted
           correct == statsCall.correct_count
           mine == UserDocProgress(statsCall.user, statsCall.document_id)
           body == [document_id |-> statsCall.document_id,
                    total_questions |-> statsCall.total_questions,
                    questions_attempted |-> attempted,
                    questions_correct |-> correct,
                    questions_incorrect |-> IF attempted # 0 THEN attempted - correct ELSE 0,
                    accuracy_percentage |-> Accuracy(correct, attempted),
                    last_attempt |->
                        IF mine = {} THEN 0 ELSE Max({ p.timestamp : p \in mine })]
       IN presp' = Answer("document_progress", 200, statsCall.user,
                          statsCall.document_id, 0, body)
    /\ statsCall' = NoStatsCall
    /\ UNCHANGED <<filePages, questions, nextQid, pc, handler, response, bg, genLog,
                   flashVars, progress, nextPid>>

\* u1 records attempts on the two questions of document 1 and clears the
\* document while a statistics call for it is between its queries
NextStatsConc ==
    \/ /\ nextPid <= MaxAttempts
       /\ \E question_id \in {1, 2}, is_correct \in BOOLEAN :
             record_progress("u1", 1, question_id, "A", is_correct)
    \/ clear_document_progress("u1", 1)
    \/ \E user \in Users : get_document_progress_total(user, 1)
    \/ get_document_progress_attempted
    \/ get_document_progress_correct
    \/ get_document_progress_return

SpecStatsConc == InitProgress /\ [][NextStatsConc]_vars

\* C29 as stated: every document-statistics answer has
\* 0 <= correct <= attempted <= total questions, incorrect = attempted -
\* correct >= 0 and an accuracy between 0 and 100, whatever is recorded or
\* cleared between its queries.
C29_StatsWithinBounds ==
    (presp.op = "document_progress" /\ presp.status = 200) =>
        /\ 0 <= presp.body.questions_correct
        /\ presp.body.questions_correct <= presp.body.questions_attempted
        /\ presp.body.questions_attempted <= presp.body.total_questions
        /\ presp.body.questions_incorrect =
              presp.body.questions_attempted - presp.body.questions_correct
        /\ presp.body.questions_incorrect >= 0
        /\ presp.body.accuracy_percentage >= 0
        /\ presp.body.accuracy_percentage <= 10000

\* ========================================================================
\* The stored correctness flag
\* ========================================================================
\* `is_correct = db_question.correct_answer == request.selected_choice` of
\* POST /validate-answer/, for a stored question
validate_answer(question_id, selected_choice) ==
    LET db_question == CHOOSE q \in questions : q.id = question_id
    IN db_question.correct_answer = selected_choice

\* C30 as stated: the is_correct of every stored attempt is what answer
\* validation gives for the attempt's question and selected choice.
C30_FlagAgreesWithValidation ==
    \A p \in progress :
        p.is_correct = validate_answer(p.question_id, p.selected_choice)

====
